---- MODULE Spec2Model ----
(***************************************************************************)
(* The agent server of server/serve_agent.py: the registry `agents`, the   *)
(* AgentProcess sessions, the PTY output reader, the WebSocket connection  *)
(* handlers with their output tasks, and the HTTP operations.  The server  *)
(* runs on one asyncio event loop, so a step of the model is the code a    *)
(* coroutine runs between two points where it can be suspended.            *)
(***************************************************************************)
EXTENDS Integers, Sequences, FiniteSets, TLC

\* Bounds of the model.
MaxInst == 2      \* AgentProcess objects constructed in one run
MaxChunks == 2    \* chunks one PTY produces
MaxMsgs == 2      \* inbound texts (viewer messages and run-task prompts)
MaxLen == 3       \* characters of a text the shell writes

AgentIds == {"a1"}
Viewers == {"w1", "w2"}
Killers == {"k1", "k2"}
Insts == 1..MaxInst

\* `agent_id not in agents`
NoInst == 0

\* terminal_size of a new AgentProcess
DefaultRows == 24
DefaultCols == 80

\* What a viewer can be sent besides PTY chunks (which are numbered 1, 2, ...
\* in the order the reader put them on output_queue).
ErrorLine == -4
Banner == -3
AgentIdLine == -2
ReadyLine == -1
\* The "Error sending input: ..." line send_input puts on output_queue.
Diag == 0

\* The body of a response that carries no status (the 404 detail).
NoBody == [is_running |-> FALSE, process_pid |-> "None", output_queue_size |-> -1,
           terminal_size |-> <<0, 0>>, connected_clients |-> -1]

(***************************************************************************)
(* Inbound texts.  A text is described by what the handler looks at:       *)
(* whether it starts with "{" and ends with "}", whether json.loads        *)
(* accepts it, and the "type", "rows" and "cols" members of the object     *)
(* (<<>> when the member is missing, <<n>> when it is the integer n).      *)
(***************************************************************************)
Text(t, br, ok, ty, r, c) ==
    [text |-> t, braces |-> br, json |-> ok, type |-> ty, rows |-> r, cols |-> c]

MsgLs == Text("ls\\n", FALSE, FALSE, "", <<>>, <<>>)
MsgNotJson == Text("{not json}", TRUE, FALSE, "", <<>>, <<>>)
MsgPing == Text("{\"type\":\"ping\"}", TRUE, TRUE, "ping", <<>>, <<>>)
MsgResize == Text("{\"type\":\"resize\",\"rows\":30,\"cols\":100}", TRUE, TRUE, "resize", <<30>>, <<100>>)
MsgResizeZero == Text("{\"type\":\"resize\",\"rows\":0,\"cols\":100}", TRUE, TRUE, "resize", <<0>>, <<100>>)
MsgResizeNegative == Text("{\"type\":\"resize\",\"rows\":-1,\"cols\":100}", TRUE, TRUE, "resize", <<-1>>, <<100>>)
MsgResizeHuge == Text("{\"type\":\"resize\",\"rows\":70000,\"cols\":100}", TRUE, TRUE, "resize", <<70000>>, <<100>>)

\* The resize frames a client can send: one the PTY takes and three it
\* cannot take.
ResizeMsgs == {MsgResize, MsgResizeZero, MsgResizeNegative, MsgResizeHuge}
Msgs == {MsgLs, MsgNotJson, MsgPing, MsgResize, MsgResizeZero}
Prompts == {MsgLs}
NoMsg == Text("", FALSE, FALSE, "", <<>>, <<>>)

VARIABLES
    agents,         \* the registry: agent id -> AgentProcess, NoInst when absent
    nextInst,       \* AgentProcess objects constructed so far
    is_running, pty_fd, process_pid, websockets, output_queue, terminal_size,
    pumpPc,         \* the _read_pty_output tasks created for each AgentProcess
    child,          \* the forked shell
    command,        \* what it was told to exec
    winsize,        \* the window size last set on the PTY, <<>> when none was
    signals,        \* the signals os.kill sent to it, in order
    pty_input,      \* what os.write delivered to the PTY
    write_errors,   \* os.write calls of send_input that raised
    produced,       \* chunks the reader has put on output_queue
    audience,       \* chunk -> the websockets set when it was put
    taken,          \* each chunk taken off output_queue, with the set then
    hpc,            \* websocket_endpoint: where each handler is
    hId,            \* its agent_id
    wsOpen,         \* the connection is up
    agentRef,       \* the handler's local `agent`
    output_task,    \* the handler's local `output_task`
    loopOut, loopTodo, loopDead,  \* the round of send_output_to_websocket
    received,       \* what the viewer was sent
    kpc, kId, kAgent, kResult,    \* kill_agent calls
    statusCode,     \* the last get_agent_status response
    statusBody,     \* and its body
    listed,         \* the last list_agents response
    runStatus,      \* the last run_task response
    probe,          \* what running `claude --version` on this host does
    shell_exists,   \* os.path.exists of the SHELL of the environment
    ptyText,        \* a text the shell writes to the PTY
    queuedText,     \* the chunk the reader made of it
    sentText,       \* what the output task sent for that chunk
    recvCount, lastRecv           \* inbound texts handled, and the last one

sessVars == <<is_running, pty_fd, process_pid, websockets, output_queue,
              terminal_size, winsize, pumpPc, child, command, signals, pty_input,
              write_errors, produced, audience, taken>>
regVars == <<agents, nextInst>>
viewVars == <<hpc, hId, wsOpen, agentRef, received>>
loopVars == <<output_task, loopOut, loopTodo, loopDead>>
killVars == <<kpc, kId, kAgent, kResult>>
inVars == <<recvCount, lastRecv>>
respVars == <<statusCode, statusBody, listed, runStatus>>
envVars == <<probe, shell_exists>>
textVars == <<ptyText, queuedText, sentText>>
vars == <<regVars, sessVars, viewVars, loopVars, killVars, respVars, envVars, textVars,
          inVars>>

\* AgentProcess.__init__ for every object, and no handler started.
InitServer ==
    /\ agents = [a \in AgentIds |-> NoInst]
    /\ nextInst = 0
    /\ is_running = [i \in Insts |-> FALSE]
    /\ pty_fd = [i \in Insts |-> "None"]
    /\ process_pid = [i \in Insts |-> "None"]
    /\ websockets = [i \in Insts |-> {}]
    /\ output_queue = [i \in Insts |-> <<>>]
    /\ terminal_size = [i \in Insts |-> <<DefaultRows, DefaultCols>>]
    /\ pumpPc = [i \in Insts |-> <<>>]
    /\ child = [i \in Insts |-> "none"]
    /\ command = [i \in Insts |-> "none"]
    /\ winsize = [i \in Insts |-> <<>>]
    /\ signals = [i \in Insts |-> <<>>]
    /\ pty_input = [i \in Insts |-> <<>>]
    /\ write_errors = [i \in Insts |-> 0]
    /\ produced = [i \in Insts |-> 0]
    /\ audience = [i \in Insts |-> <<>>]
    /\ taken = [i \in Insts |-> <<>>]
    /\ hpc = [v \in Viewers |-> "idle"]
    /\ hId = [v \in Viewers |-> CHOOSE a \in AgentIds : TRUE]
    /\ wsOpen = [v \in Viewers |-> FALSE]
    /\ agentRef = [v \in Viewers |-> NoInst]
    /\ output_task = [v \in Viewers |-> "unset"]
    /\ loopOut = [v \in Viewers |-> Diag]
    /\ loopTodo = [v \in Viewers |-> {}]
    /\ loopDead = [v \in Viewers |-> {}]
    /\ received = [v \in Viewers |-> <<>>]
    /\ kpc = [k \in Killers |-> "idle"]
    /\ kId = [k \in Killers |-> CHOOSE a \in AgentIds : TRUE]
    /\ kAgent = [k \in Killers |-> NoInst]
    /\ kResult = [k \in Killers |-> 0]
    /\ statusCode = 0
    /\ statusBody = NoBody
    /\ listed = {}
    /\ runStatus = 0
    /\ queuedText = <<>>
    /\ sentText = <<>>
    /\ recvCount = 0
    /\ lastRecv = [from |-> "", msg |-> NoMsg]

\* What the shell can write to the PTY: a printable character, a carriage
\* return, a line feed, or a byte that is not valid UTF-8.
Chars == {"a", "CR", "LF", "BAD"}
Texts == UNION {[1..n -> Chars] : n \in 0..MaxLen}

\* What subprocess.run(["claude", "--version"], timeout=5) can do on a host:
\* exit 0, exit with another code, run into the timeout, find no such file,
\* or fail to launch with another OSError (which the probe does not catch).
ProbeOutcomes == {"ok", "nonzero", "timeout", "notfound", "oserror"}

\* The server on a host with no claude in PATH and with the SHELL of its
\* environment in place.
Init ==
    /\ InitServer
    /\ probe = "notfound"
    /\ shell_exists = TRUE
    /\ ptyText = <<>>

\* The server on any host.
InitAnyHost ==
    /\ InitServer
    /\ ptyText = <<>>
    /\ probe \in ProbeOutcomes
    /\ shell_exists \in BOOLEAN

\* The server idle, and a shell about to write any text.
InitText ==
    /\ InitServer
    /\ probe = "notfound"
    /\ shell_exists = TRUE
    /\ ptyText \in Texts

(***************************************************************************)
(* AgentProcess                                                            *)
(***************************************************************************)

\* _setup_claude_config: its body is `return False`, the rest is a string.
setup_claude_config == FALSE

\* _check_claude_availability for the probe's outcome p.
check_claude_availability(p) == p = "ok"

\* The command start_process chooses: `claude_available` is only looked up
\* `if config_success`, then SHELL if it exists, then /bin/sh.
ChooseCommand(p, sh) ==
    LET config_success == setup_claude_config
        claude_available == IF config_success THEN check_claude_availability(p) ELSE FALSE
    IN IF claude_available THEN "claude"
       ELSE IF sh THEN "SHELL" ELSE "/bin/sh"

\* What pty.openpty() and os.fork() can do in start_process.
StartOutcomes == {"ok", "openpty_fails", "fork_fails"}

\* start_process: the awaits before the fork run without suspending (the
\* coroutines they call only make blocking calls), so it is one step.  On
\* "ok" the parent has the PTY, the child's pid, is_running and a new
\* _read_pty_output task; a failure raises HTTPException(500).
start_process(i, oc) ==
    /\ pty_fd' = [pty_fd EXCEPT ![i] = IF oc = "openpty_fails" THEN @ ELSE "fd"]
    /\ process_pid' = [process_pid EXCEPT ![i] = IF oc = "ok" THEN "pid" ELSE @]
    /\ is_running' = [is_running EXCEPT ![i] = IF oc = "ok" THEN TRUE ELSE @]
    /\ pumpPc' = [pumpPc EXCEPT ![i] = IF oc = "ok" THEN Append(@, "new") ELSE @]
    /\ child' = [child EXCEPT ![i] = IF oc = "ok" THEN "alive" ELSE @]
    /\ command' = [command EXCEPT ![i] =
          IF oc = "ok" THEN ChooseCommand(probe, shell_exists) ELSE @]

startVars == <<pty_fd, process_pid, is_running, pumpPc, child, command>>

\* Python truthiness of message.get("rows"): None and 0 are false.
Truthy(x) == Len(x) = 1 /\ x[1] # 0

\* struct.pack("HHHH", rows, cols, 0, 0) takes unsigned 16-bit values and
\* raises struct.error for any other.
MaxUShort == 65535
Packable(n) == n >= 0 /\ n <= MaxUShort

\* The variant with terminal_size kept on the class, shared by every
\* AgentProcess.
set_terminal_size_shared(i, rows, cols) ==
    /\ terminal_size' = [j \in Insts |->
          IF Truthy(rows) /\ Truthy(cols) THEN <<rows[1], cols[1]>> ELSE terminal_size[j]]
    /\ winsize' = [winsize EXCEPT ![i] =
          IF pty_fd[i] # "None" /\ Packable(terminal_size'[i][1]) /\ Packable(terminal_size'[i][2])
          THEN terminal_size'[i] ELSE @]

\* _set_terminal_size(rows, cols) as the handler calls it: terminal_size is
\* assigned before the try block; inside it the size is packed and set on
\* the PTY when there is one, and whatever is raised there is only logged.
set_terminal_size(i, rows, cols) ==
    /\ terminal_size' = [terminal_size EXCEPT ![i] =
          IF Truthy(rows) /\ Truthy(cols) THEN <<rows[1], cols[1]>> ELSE @]
    /\ winsize' = [winsize EXCEPT ![i] =
          IF pty_fd[i] # "None" /\ Packable(terminal_size'[i][1]) /\ Packable(terminal_size'[i][2])
          THEN terminal_size'[i] ELSE @]

\* What os.write(pty_fd, ...) can do: write the text, or raise (the
\* descriptor is non-blocking, and it may be closed or its child gone).
WriteOutcomes == {"all", "raises"}

\* The variant whose except clause only logs: a failed write is counted but
\* no line is put on output_queue.
send_input_unreported(i, fd, data, wo) ==
    /\ pty_input' = [pty_input EXCEPT ![i] =
          IF fd # "None" /\ wo # "raises"
          THEN Append(@, data.text) ELSE @]
    /\ write_errors' = [write_errors EXCEPT ![i] =
          IF fd # "None" /\ wo = "raises" THEN @ + 1 ELSE @]
    /\ output_queue' = output_queue

\* send_input(data), with fd the value of self.pty_fd at the call.
send_input(i, fd, data, wo) ==
    /\ pty_input' = [pty_input EXCEPT ![i] =
          IF fd # "None" /\ wo # "raises"
          THEN Append(@, data.text) ELSE @]
    /\ write_errors' = [write_errors EXCEPT ![i] =
          IF fd # "None" /\ wo = "raises" THEN @ + 1 ELSE @]
    /\ output_queue' = [output_queue EXCEPT ![i] =
          IF fd # "None" /\ wo = "raises" THEN Append(@, Diag) ELSE @]

\* get_status()
get_status(i) ==
    [is_running |-> is_running[i],
     process_pid |-> process_pid[i],
     output_queue_size |-> Len(output_queue[i]),
     terminal_size |-> terminal_size[i],
     connected_clients |-> Cardinality(websockets[i])]

\* ---- _read_pty_output ----

RECURSIVE decode(_)
\* bytes.decode('utf-8', errors='ignore') in _read_pty_data: what cannot be
\* decoded is left out.
decode(t) ==
    IF t = <<>> THEN <<>>
    ELSE (IF Head(t) = "BAD" THEN <<>> ELSE <<Head(t)>>) \o decode(Tail(t))

\* The reader puts what _read_pty_data returned on output_queue.
Capture ==
    /\ queuedText = <<>>
    /\ queuedText' = <<decode(ptyText)>>
    /\ UNCHANGED <<regVars, sessVars, viewVars, loopVars, killVars, respVars, envVars,
                   ptyText, sentText, inVars>>

ActivePumps(i) == {n \in DOMAIN pumpPc[i] : pumpPc[i][n] # "done"}

\* The task's first run: `if not self.pty_fd: return`, then the first test of
\* `while self.is_running` and the first read handed to the executor.
PumpStart(i, n) ==
    /\ n \in DOMAIN pumpPc[i]
    /\ pumpPc[i][n] = "new"
    /\ pumpPc' = [pumpPc EXCEPT ![i][n] =
          IF pty_fd[i] # "None" /\ is_running[i] THEN "read" ELSE "done"]
    /\ UNCHANGED <<regVars, is_running, pty_fd, process_pid, websockets, output_queue, terminal_size, winsize,
                   child, command, signals, pty_input, write_errors, produced, audience, taken, viewVars, loopVars, killVars,
                   respVars, envVars, textVars, inVars>>

\* What _read_pty_data returns: a chunk, or None ("again": nothing to read on
\* the non-blocking descriptor; "error": the OSError of a PTY whose child is
\* gone, which the same except clause turns into None).  With pty_fd None
\* os.read raises TypeError, which leaves _read_pty_data.
ReadResult(i) ==
    IF pty_fd[i] = "None" THEN {"TypeError"}
    ELSE IF child[i] = "alive"
         THEN {"again"} \cup (IF produced[i] < MaxChunks THEN {"data"} ELSE {})
         ELSE {"error"}

\* What the loop does with the result of one read.
AfterRead(i, r) ==
    CASE r = "data" -> IF is_running[i] THEN "read" ELSE "done"
      [] r = "TypeError" -> "done"
      [] OTHER -> "sleep"

\* The executor's result arrives: put the chunk, or sleep when there is none.
PumpRead(i, n) ==
    /\ n \in DOMAIN pumpPc[i]
    /\ pumpPc[i][n] = "read"
    /\ \E r \in ReadResult(i) :
        /\ pumpPc' = [pumpPc EXCEPT ![i][n] = AfterRead(i, r)]
        /\ IF r = "data"
           THEN /\ produced' = [produced EXCEPT ![i] = @ + 1]
                /\ output_queue' = [output_queue EXCEPT ![i] = Append(@, produced[i] + 1)]
                /\ audience' = [audience EXCEPT ![i] = Append(@, websockets[i])]
           ELSE UNCHANGED <<produced, output_queue, audience>>
        \* finally: self.is_running = False
        /\ is_running' = [is_running EXCEPT ![i] =
              IF AfterRead(i, r) = "done" THEN FALSE ELSE @]
    /\ UNCHANGED <<regVars, pty_fd, process_pid, websockets, terminal_size, winsize, child, command, signals,
                   pty_input, write_errors, taken, viewVars, loopVars, killVars, respVars, envVars, textVars,
                   inVars>>

\* asyncio.sleep(0.01) is over: test `while self.is_running` and read again.
PumpWake(i, n) ==
    /\ n \in DOMAIN pumpPc[i]
    /\ pumpPc[i][n] = "sleep"
    /\ pumpPc' = [pumpPc EXCEPT ![i][n] = IF is_running[i] THEN "read" ELSE "done"]
    /\ UNCHANGED <<regVars, is_running, pty_fd, process_pid, websockets, output_queue,
                   terminal_size, winsize, child, command, signals, pty_input, write_errors, produced, audience, taken, viewVars,
                   loopVars, killVars, respVars, envVars, textVars, inVars>>

\* The shell ends (the user types exit, or a signal ends it).
ChildExits(i) ==
    /\ child[i] = "alive"
    /\ child' = [child EXCEPT ![i] = "exited"]
    /\ UNCHANGED <<regVars, is_running, pty_fd, process_pid, websockets, output_queue,
                   terminal_size, winsize, pumpPc, command, signals, pty_input, write_errors, produced,
                   audience, taken, viewVars, loopVars, killVars, respVars, envVars, textVars, inVars>>

(***************************************************************************)
(* send_output_to_websocket: one task per handler that found itself the    *)
(* first client; output_task[l] is the task handler l created.             *)
(***************************************************************************)

LoopActive(l) == output_task[l] \in {"new", "get", "send"}

\* The fan-out tasks serving AgentProcess i.
Loops(i) == {l \in Viewers : LoopActive(l) /\ agentRef[l] = i}

\* `while agent.is_running` followed by the wait on output_queue.get().
LoopCheck(i) == IF is_running[i] THEN "get" ELSE "done"

\* ws.send_text(formatted_output) for the next socket w of the snapshot; rest
\* are the sockets still to come and dead those that raised so far.  After the
\* last socket the dead ones are discarded and the while condition is tested.
SendStep(l, i, c, w, rest, dead) ==
    LET newDead == IF wsOpen[w] THEN dead ELSE dead \cup {w} IN
    /\ received' = [received EXCEPT ![w] = IF wsOpen[w] THEN Append(@, c) ELSE @]
    /\ IF rest = {}
       THEN /\ websockets' = [websockets EXCEPT ![i] = @ \ newDead]
            /\ output_task' = [output_task EXCEPT ![l] = LoopCheck(i)]
            /\ loopOut' = [loopOut EXCEPT ![l] = Diag]
            /\ loopTodo' = [loopTodo EXCEPT ![l] = {}]
            /\ loopDead' = [loopDead EXCEPT ![l] = {}]
       ELSE /\ websockets' = websockets
            /\ output_task' = [output_task EXCEPT ![l] = "send"]
            /\ loopOut' = [loopOut EXCEPT ![l] = c]
            /\ loopTodo' = [loopTodo EXCEPT ![l] = rest]
            /\ loopDead' = [loopDead EXCEPT ![l] = newDead]

RECURSIVE replace(_)
\* output.replace('\n', '\r\n'): every line feed becomes CR LF.
replace(t) ==
    IF t = <<>> THEN <<>>
    ELSE (IF Head(t) = "LF" THEN <<"CR", "LF">> ELSE <<Head(t)>>) \o replace(Tail(t))

\* The output task formats the chunk it took and sends it.
Deliver ==
    /\ queuedText # <<>>
    /\ sentText = <<>>
    /\ sentText' = <<replace(queuedText[1])>>
    /\ UNCHANGED <<regVars, sessVars, viewVars, loopVars, killVars, respVars, envVars,
                   ptyText, queuedText, inVars>>

\* The task's first run.
LoopStart(l) ==
    /\ output_task[l] = "new"
    /\ output_task' = [output_task EXCEPT ![l] = LoopCheck(agentRef[l])]
    /\ UNCHANGED <<regVars, sessVars, viewVars, loopOut, loopTodo, loopDead, killVars,
                   respVars, envVars, textVars, inVars>>

\* wait_for(...) times out with nothing queued: `continue`, and the while
\* condition ends the task once is_running is false.
LoopTimeout(l) ==
    /\ output_task[l] = "get"
    /\ output_queue[agentRef[l]] = <<>>
    /\ ~is_running[agentRef[l]]
    /\ output_task' = [output_task EXCEPT ![l] = "done"]
    /\ UNCHANGED <<regVars, sessVars, viewVars, loopOut, loopTodo, loopDead, killVars,
                   respVars, envVars, textVars, inVars>>

\* output_queue.get() returns a chunk: snapshot list(agent.websockets) and send
\* to its first socket (a set has no promised order).
LoopTake(l) ==
    LET i == agentRef[l] IN
    /\ output_task[l] = "get"
    /\ output_queue[i] # <<>>
    /\ output_queue' = [output_queue EXCEPT ![i] = Tail(@)]
    /\ taken' = [taken EXCEPT ![i] =
          Append(@, [chunk |-> Head(output_queue[i]), viewers |-> websockets[i]])]
    /\ IF websockets[i] = {}
       THEN /\ output_task' = [output_task EXCEPT ![l] = LoopCheck(i)]
            /\ UNCHANGED <<websockets, received, loopOut, loopTodo, loopDead>>
       ELSE \E w \in websockets[i] :
                SendStep(l, i, Head(output_queue[i]), w, websockets[i] \ {w}, {})
    /\ UNCHANGED <<regVars, is_running, pty_fd, process_pid, terminal_size, winsize, pumpPc, child, command, signals,
                   pty_input, write_errors, produced, audience, hpc, hId, wsOpen, agentRef,
                   killVars, respVars, envVars, textVars, inVars>>

\* The previous send_text is over: the next socket of the snapshot.
LoopSend(l) ==
    /\ output_task[l] = "send"
    /\ \E w \in loopTodo[l] :
        SendStep(l, agentRef[l], loopOut[l], w, loopTodo[l] \ {w}, loopDead[l])
    /\ UNCHANGED <<regVars, is_running, pty_fd, process_pid, output_queue, terminal_size, winsize,
                   pumpPc, child, command, signals, pty_input, write_errors, produced, audience, taken, hpc, hId, wsOpen,
                   agentRef, killVars, respVars, envVars, textVars, inVars>>

\* output_task.cancel(): CancelledError ends the task where it waits.
Cancelled(l) == IF LoopActive(l) THEN "cancelled" ELSE output_task[l]

(***************************************************************************)
(* websocket_endpoint                                                      *)
(***************************************************************************)

\* The variant without the registry test: start_process awaited on every attach
\* and run_task, which gives one AgentProcess a second reader task.
StartAlways(id) == TRUE

\* `if agent_id not in agents:` guards both the construction and start_process.
StartNeeded(id) == agents[id] = NoInst

\* `if len(agent.websockets) == 1:` guards the creation of the output task.
FirstClient(i) == Cardinality(websockets[i]) = 1

\* A client connects and websocket.accept() returns.
Connect(v, id) ==
    /\ hpc[v] = "idle"
    /\ hpc' = [hpc EXCEPT ![v] = "accepted"]
    /\ hId' = [hId EXCEPT ![v] = id]
    /\ wsOpen' = [wsOpen EXCEPT ![v] = TRUE]
    /\ UNCHANGED <<regVars, sessVars, agentRef, received, loopVars, killVars,
                   respVars, envVars, textVars, inVars>>

\* The client goes away; the handler and the output tasks find out when
\* they next receive from or send to the socket.
Sever(v) ==
    /\ hpc[v] \in {"accepted", "hello2", "hello3", "recv"}
    /\ wsOpen[v]
    /\ wsOpen' = [wsOpen EXCEPT ![v] = FALSE]
    /\ UNCHANGED <<regVars, sessVars, hpc, hId, agentRef, received, loopVars, killVars,
                   respVars, envVars, textVars, inVars>>

\* The variant that replays to a new viewer the chunks the PTY produced so
\* far, after the banner.
GreetingReplay(i) == <<Banner>> \o [n \in 1..produced[i] |-> n]

\* What the handler sends right after it has added the socket.
Greeting(i) == <<Banner>>

\* Get or create the agent, add the socket and send the first welcome line.
\* A failing start_process raises into `except Exception`: the error text is
\* sent and the socket closed, with the new AgentProcess left in agents.
Attach(v, oc) ==
    LET id == hId[v]
        create == agents[id] = NoInst
        i == IF create THEN nextInst + 1 ELSE agents[id]
        failed == StartNeeded(id) /\ oc # "ok"
    IN
    /\ hpc[v] = "accepted"
    /\ create => nextInst < MaxInst
    /\ ~StartNeeded(id) => oc = "ok"
    /\ agents' = [agents EXCEPT ![id] = i]
    /\ nextInst' = IF create THEN i ELSE nextInst
    /\ IF StartNeeded(id) THEN start_process(i, oc) ELSE UNCHANGED startVars
    /\ IF failed
       THEN /\ hpc' = [hpc EXCEPT ![v] = "done"]
            /\ received' = [received EXCEPT ![v] = IF wsOpen[v] THEN Append(@, ErrorLine) ELSE @]
            /\ wsOpen' = [wsOpen EXCEPT ![v] = FALSE]
            /\ UNCHANGED <<agentRef, websockets>>
       ELSE /\ hpc' = [hpc EXCEPT ![v] = "hello2"]
            /\ agentRef' = [agentRef EXCEPT ![v] = i]
            /\ websockets' = [websockets EXCEPT ![i] = @ \cup {v}]
            /\ received' = [received EXCEPT ![v] = IF wsOpen[v] THEN @ \o Greeting(i) ELSE @]
            /\ wsOpen' = wsOpen
    /\ UNCHANGED <<output_queue, terminal_size, winsize, signals, pty_input, write_errors, produced,
                   audience, taken, hId, loopVars, killVars, respVars, envVars, textVars, inVars>>

\* The second welcome line.
SendAgentId(v) ==
    /\ hpc[v] = "hello2"
    /\ wsOpen[v]
    /\ hpc' = [hpc EXCEPT ![v] = "hello3"]
    /\ received' = [received EXCEPT ![v] = Append(@, AgentIdLine)]
    /\ UNCHANGED <<regVars, sessVars, hId, wsOpen, agentRef, loopVars, killVars,
                   respVars, envVars, textVars, inVars>>

\* The third welcome line, then the output task if this is the first client,
\* then the wait in receive_text().
SendReady(v) ==
    /\ hpc[v] = "hello3"
    /\ wsOpen[v]
    /\ hpc' = [hpc EXCEPT ![v] = "recv"]
    /\ received' = [received EXCEPT ![v] = Append(@, ReadyLine)]
    /\ output_task' = [output_task EXCEPT ![v] = IF FirstClient(agentRef[v]) THEN "new" ELSE @]
    /\ UNCHANGED <<regVars, sessVars, hId, wsOpen, agentRef, loopOut, loopTodo, loopDead,
                   killVars, respVars, envVars, textVars, inVars>>

\* The handler's classification of a received text: resize frames it applies
\* and does not forward (the `continue`).
IsResize(m) ==
    /\ m.braces
    /\ m.json
    /\ m.type = "resize"
    /\ Truthy(m.rows) /\ Truthy(m.cols)

\* receive_text() returns m: a resize is applied, anything else goes to
\* send_input.
Receive(v, m, wo) ==
    LET i == agentRef[v] IN
    /\ hpc[v] = "recv"
    /\ wsOpen[v]
    /\ recvCount < MaxMsgs
    /\ recvCount' = recvCount + 1
    /\ lastRecv' = [from |-> v, msg |-> m]
    /\ IF IsResize(m)
       THEN /\ wo = "all"
            /\ set_terminal_size(i, m.rows, m.cols)
            /\ UNCHANGED <<pty_input, write_errors, output_queue>>
       ELSE /\ (pty_fd[i] = "None" => wo = "all")
            /\ send_input(i, pty_fd[i], m, wo)
            /\ UNCHANGED <<terminal_size, winsize>>
    /\ UNCHANGED <<regVars, is_running, pty_fd, process_pid, websockets, pumpPc, child, command, signals,
                   produced, audience, taken, viewVars, loopVars, killVars, respVars, envVars, textVars>>

\* `except WebSocketDisconnect`: receive_text, or a welcome send_text on a
\* server that reports a lost client this way, raised it.  The socket is
\* discarded from the agent now registered under the id, and the handler's
\* output task is cancelled.
HandlerDisconnect(v) ==
    LET id == hId[v] IN
    /\ hpc[v] \in {"hello2", "hello3", "recv"}
    /\ ~wsOpen[v]
    /\ hpc' = [hpc EXCEPT ![v] = "done"]
    /\ websockets' = IF agents[id] # NoInst
                     THEN [websockets EXCEPT ![agents[id]] = @ \ {v}]
                     ELSE websockets
    /\ output_task' = [output_task EXCEPT ![v] = Cancelled(v)]
    /\ loopOut' = [loopOut EXCEPT ![v] = Diag]
    /\ loopTodo' = [loopTodo EXCEPT ![v] = {}]
    /\ loopDead' = [loopDead EXCEPT ![v] = {}]
    /\ UNCHANGED <<regVars, is_running, pty_fd, process_pid, output_queue, terminal_size, winsize,
                   pumpPc, child, command, signals, pty_input, write_errors, produced, audience, taken, hId, wsOpen, agentRef,
                   received, killVars, respVars, envVars, textVars, inVars>>

\* `except Exception`: a welcome send_text raised something else, or the
\* client sent a binary frame (receive_text finds no "text").  The error text
\* is sent and the socket closed; nothing else is undone.
HandlerError(v) ==
    /\ \/ hpc[v] \in {"hello2", "hello3"} /\ ~wsOpen[v]
       \/ hpc[v] = "recv" /\ wsOpen[v]
    /\ hpc' = [hpc EXCEPT ![v] = "done"]
    /\ received' = [received EXCEPT ![v] = IF wsOpen[v] THEN Append(@, ErrorLine) ELSE @]
    /\ wsOpen' = [wsOpen EXCEPT ![v] = FALSE]
    /\ UNCHANGED <<regVars, sessVars, hId, agentRef, loopVars, killVars, respVars, envVars, textVars, inVars>>

(***************************************************************************)
(* The HTTP operations                                                     *)
(***************************************************************************)

\* get_agent_status
GetStatus(id) ==
    /\ statusCode' = IF agents[id] = NoInst THEN 404 ELSE 200
    /\ statusBody' = IF agents[id] = NoInst THEN NoBody ELSE get_status(agents[id])
    /\ UNCHANGED <<regVars, sessVars, viewVars, loopVars, killVars, listed, runStatus,
                   envVars, textVars, inVars>>

\* list_agents: the status of every registered agent, by agent_id.
ListAgents ==
    /\ listed' = {<<id, get_status(agents[id])>> : id \in {a \in AgentIds : agents[a] # NoInst}}
    /\ UNCHANGED <<regVars, sessVars, viewVars, loopVars, killVars, statusCode, statusBody,
                   runStatus, envVars, textVars, inVars>>

\* run_task: no await in it suspends, so it is one step.
RunTask(id, p, oc, wo) ==
    LET create == agents[id] = NoInst
        i == IF create THEN nextInst + 1 ELSE agents[id]
        fd == IF ~StartNeeded(id) THEN pty_fd[i]
              ELSE IF oc = "openpty_fails" THEN pty_fd[i] ELSE "fd"
    IN
    /\ recvCount < MaxMsgs
    /\ create => nextInst < MaxInst
    /\ ~StartNeeded(id) => oc = "ok"
    /\ agents' = [agents EXCEPT ![id] = i]
    /\ nextInst' = IF create THEN i ELSE nextInst
    /\ IF StartNeeded(id) THEN start_process(i, oc) ELSE UNCHANGED startVars
    /\ IF StartNeeded(id) /\ oc # "ok"
       THEN /\ wo = "all"
            /\ runStatus' = 500
            /\ UNCHANGED <<pty_input, write_errors, output_queue, inVars>>
       ELSE /\ (fd = "None" => wo = "all")
            /\ send_input(i, fd, p, wo)
            /\ runStatus' = 200
            /\ recvCount' = recvCount + 1
            /\ lastRecv' = [from |-> "run", msg |-> p]
    /\ UNCHANGED <<websockets, terminal_size, winsize, signals, produced, audience, taken, viewVars,
                   loopVars, killVars, statusCode, statusBody, listed, envVars, textVars>>

\* kill_agent up to the sleep inside stop(): 404 for an unknown id; otherwise
\* is_running is cleared, the PTY closed and SIGTERM sent.  With no
\* process_pid stop() does not suspend and the entry is deleted at once.
KillBegin(k, id) ==
    LET i == agents[id] IN
    /\ kpc[k] = "idle"
    /\ kId' = [kId EXCEPT ![k] = id]
    /\ IF i = NoInst
       THEN /\ kpc' = [kpc EXCEPT ![k] = "done"]
            /\ kResult' = [kResult EXCEPT ![k] = 404]
            /\ UNCHANGED <<agents, kAgent, is_running, pty_fd, signals>>
       ELSE /\ is_running' = [is_running EXCEPT ![i] = FALSE]
            /\ pty_fd' = [pty_fd EXCEPT ![i] = "None"]
            /\ signals' = [signals EXCEPT ![i] =
                  IF process_pid[i] # "None" THEN Append(@, "TERM") ELSE @]
            /\ kAgent' = [kAgent EXCEPT ![k] = i]
            /\ IF process_pid[i] = "None"
               THEN /\ kpc' = [kpc EXCEPT ![k] = "done"]
                    /\ kResult' = [kResult EXCEPT ![k] = 200]
                    /\ agents' = [agents EXCEPT ![id] = NoInst]
               ELSE /\ kpc' = [kpc EXCEPT ![k] = "sleep"]
                    /\ UNCHANGED <<agents, kResult>>
    /\ UNCHANGED <<nextInst, process_pid, websockets, output_queue, terminal_size, winsize, pumpPc,
                   child, command, pty_input, write_errors, produced, audience, taken, viewVars, loopVars, respVars, envVars, textVars,
                   inVars>>

\* After the sleep: os.kill(pid, 0) and SIGKILL (with process_pid already
\* None the TypeError is caught and logged), process_pid = None, and then
\* `del agents[agent_id]`, a KeyError when the entry is gone.  The server
\* never waits for its child, so a shell that has exited stays in the process
\* table: os.kill(pid, 0) finds it and does not raise ProcessLookupError.
KillFinish(k) ==
    LET i == kAgent[k]
        id == kId[k]
    IN
    /\ kpc[k] = "sleep"
    /\ kpc' = [kpc EXCEPT ![k] = "done"]
    /\ signals' = [signals EXCEPT ![i] =
          IF process_pid[i] # "None" THEN Append(@, "KILL") ELSE @]
    /\ child' = [child EXCEPT ![i] = IF process_pid[i] # "None" THEN "exited" ELSE @]
    /\ process_pid' = [process_pid EXCEPT ![i] = "None"]
    /\ kResult' = [kResult EXCEPT ![k] = IF agents[id] = NoInst THEN 500 ELSE 200]
    /\ agents' = [agents EXCEPT ![id] = NoInst]
    /\ UNCHANGED <<nextInst, is_running, pty_fd, command, websockets, output_queue, terminal_size, winsize,
                   pumpPc, pty_input, write_errors, produced, audience, taken, viewVars, loopVars, kId, kAgent,
                   respVars, envVars, textVars, inVars>>

(***************************************************************************)
(* The server                                                              *)
(***************************************************************************)

Next ==
    \/ \E v \in Viewers, id \in AgentIds : Connect(v, id)
    \/ \E v \in Viewers : Sever(v)
    \/ \E v \in Viewers, oc \in StartOutcomes : Attach(v, oc)
    \/ \E v \in Viewers : SendAgentId(v)
    \/ \E v \in Viewers : SendReady(v)
    \/ \E v \in Viewers, m \in Msgs, wo \in WriteOutcomes : Receive(v, m, wo)
    \/ \E v \in Viewers : HandlerDisconnect(v)
    \/ \E v \in Viewers : HandlerError(v)
    \/ \E l \in Viewers : LoopStart(l)
    \/ \E l \in Viewers : LoopTimeout(l)
    \/ \E l \in Viewers : LoopTake(l)
    \/ \E l \in Viewers : LoopSend(l)
    \/ \E i \in Insts : \E n \in DOMAIN pumpPc[i] : PumpStart(i, n)
    \/ \E i \in Insts : \E n \in DOMAIN pumpPc[i] : PumpRead(i, n)
    \/ \E i \in Insts : \E n \in DOMAIN pumpPc[i] : PumpWake(i, n)
    \/ \E i \in Insts : ChildExits(i)
    \/ Capture
    \/ Deliver
    \/ \E id \in AgentIds : GetStatus(id)
    \/ ListAgents
    \/ \E id \in AgentIds, p \in Prompts, oc \in StartOutcomes, wo \in WriteOutcomes :
          RunTask(id, p, oc, wo)
    \/ \E k \in Killers, id \in AgentIds : KillBegin(k, id)
    \/ \E k \in Killers : KillFinish(k)

Spec == Init /\ [][Next]_vars

(***************************************************************************)
(* Parts of the server, each run on its own: the operations a group of     *)
(* properties is about, in every interleaving.                             *)
(***************************************************************************)

ViewerSteps ==
    \/ \E v \in Viewers, id \in AgentIds : Connect(v, id)
    \/ \E v \in Viewers : Sever(v)
    \/ \E v \in Viewers : Attach(v, "ok")
    \/ \E v \in Viewers : SendAgentId(v)
    \/ \E v \in Viewers : SendReady(v)
    \/ \E v \in Viewers : HandlerDisconnect(v)
    \/ \E v \in Viewers : HandlerError(v)

LoopSteps ==
    \/ \E l \in Viewers : LoopStart(l)
    \/ \E l \in Viewers : LoopTimeout(l)
    \/ \E l \in Viewers : LoopTake(l)
    \/ \E l \in Viewers : LoopSend(l)

PumpSteps ==
    \/ \E i \in Insts : \E n \in DOMAIN pumpPc[i] : PumpStart(i, n)
    \/ \E i \in Insts : \E n \in DOMAIN pumpPc[i] : PumpRead(i, n)
    \/ \E i \in Insts : \E n \in DOMAIN pumpPc[i] : PumpWake(i, n)
    \/ \E i \in Insts : ChildExits(i)

\* The output path: viewers, output tasks, the reader and one kill_agent call.
NextFan ==
    \/ ViewerSteps
    \/ LoopSteps
    \/ PumpSteps
    \/ \E id \in AgentIds : KillBegin("k1", id)
    \/ KillFinish("k1")

SpecFan == Init /\ [][NextFan]_vars

\* The input path: viewers, the texts they send, run_task prompts (with a
\* start_process that succeeds), and one kill_agent call.
NextRouter ==
    \/ ViewerSteps
    \/ \E v \in Viewers, m \in Msgs, wo \in WriteOutcomes : Receive(v, m, wo)
    \/ \E id \in AgentIds, p \in Prompts, wo \in WriteOutcomes : RunTask(id, p, "ok", wo)
    \/ \E id \in AgentIds : KillBegin("k1", id)
    \/ KillFinish("k1")

SpecRouter == Init /\ [][NextRouter]_vars

\* The registry: attach and run_task creating agents, overlapping kill_agent
\* calls, get_agent_status.
NextAdmin ==
    \/ \E v \in Viewers, id \in AgentIds : Connect(v, id)
    \/ \E v \in Viewers, oc \in StartOutcomes : Attach(v, oc)
    \/ \E id \in AgentIds, p \in Prompts, oc \in StartOutcomes, wo \in WriteOutcomes :
          RunTask(id, p, oc, wo)
    \/ \E id \in AgentIds : GetStatus(id)
    \/ ListAgents
    \/ \E k \in Killers, id \in AgentIds : KillBegin(k, id)
    \/ \E k \in Killers : KillFinish(k)

SpecAdmin == Init /\ [][NextAdmin]_vars

\* Everything that constructs or starts an AgentProcess or touches one that
\* is started: attach with every outcome of start_process, run_task, resize
\* frames, kill_agent and the reader (PTY writes succeed, the child lives).
NextStart ==
    \/ \E v \in Viewers, id \in AgentIds : Connect(v, id)
    \/ \E v \in Viewers, oc \in StartOutcomes : Attach(v, oc)
    \/ \E v \in Viewers : SendAgentId(v)
    \/ \E v \in Viewers : SendReady(v)
    \/ \E v \in Viewers : Receive(v, MsgResize, "all")
    \/ \E id \in AgentIds, p \in Prompts, oc \in StartOutcomes : RunTask(id, p, oc, "all")
    \/ \E id \in AgentIds : KillBegin("k1", id)
    \/ KillFinish("k1")
    \/ \E i \in Insts : \E n \in DOMAIN pumpPc[i] : PumpStart(i, n)
    \/ \E i \in Insts : \E n \in DOMAIN pumpPc[i] : PumpRead(i, n)
    \/ \E i \in Insts : \E n \in DOMAIN pumpPc[i] : PumpWake(i, n)

SpecStart == Init /\ [][NextStart]_vars

\* The life of the registry entries with one viewer: what creates an
\* AgentProcess (attach and run_task, with every outcome of start_process),
\* what removes one (kill_agent), and what must not: the viewer leaving, a
\* failed delivery, the reader ending.
NextRegistry ==
    \/ \E id \in AgentIds : Connect("w1", id)
    \/ Sever("w1")
    \/ \E oc \in StartOutcomes : Attach("w1", oc)
    \/ SendAgentId("w1")
    \/ SendReady("w1")
    \/ HandlerDisconnect("w1")
    \/ \E id \in AgentIds, p \in Prompts, oc \in StartOutcomes : RunTask(id, p, oc, "all")
    \/ \E id \in AgentIds : KillBegin("k1", id)
    \/ KillFinish("k1")
    \/ LoopStart("w1")
    \/ LoopTimeout("w1")
    \/ LoopTake("w1")
    \/ \E i \in Insts : \E n \in DOMAIN pumpPc[i] : PumpStart(i, n)
    \/ \E i \in Insts : \E n \in DOMAIN pumpPc[i] : PumpRead(i, n)
    \/ \E i \in Insts : \E n \in DOMAIN pumpPc[i] : PumpWake(i, n)

SpecRegistry == Init /\ [][NextRegistry]_vars

\* Delivery on running agents: viewers coming and going, the output tasks and
\* the reader of a shell that lives.
NextDeliver ==
    \/ ViewerSteps
    \/ \E l \in Viewers : LoopStart(l)
    \/ \E l \in Viewers : LoopTake(l)
    \/ \E l \in Viewers : LoopSend(l)
    \/ \E i \in Insts : \E n \in DOMAIN pumpPc[i] : PumpStart(i, n)
    \/ \E i \in Insts : \E n \in DOMAIN pumpPc[i] : PumpRead(i, n)
    \/ \E i \in Insts : \E n \in DOMAIN pumpPc[i] : PumpWake(i, n)

SpecDeliver == Init /\ [][NextDeliver]_vars

\* Starting agents on any host: attach and run_task with every outcome of
\* start_process, and one kill_agent call.
NextHost ==
    \/ \E v \in Viewers, id \in AgentIds : Connect(v, id)
    \/ \E v \in Viewers, oc \in StartOutcomes : Attach(v, oc)
    \/ \E id \in AgentIds, p \in Prompts, oc \in StartOutcomes : RunTask(id, p, oc, "all")
    \/ \E id \in AgentIds : KillBegin("k1", id)
    \/ KillFinish("k1")

SpecHost == InitAnyHost /\ [][NextHost]_vars

\* Resizing: viewers attached to running agents sending resize frames, and
\* one kill_agent call.
NextResize ==
    \/ \E v \in Viewers, id \in AgentIds : Connect(v, id)
    \/ \E v \in Viewers : Attach(v, "ok")
    \/ \E v \in Viewers : SendAgentId(v)
    \/ \E v \in Viewers : SendReady(v)
    \/ \E v \in Viewers, m \in ResizeMsgs : Receive(v, m, "all")
    \/ \E id \in AgentIds : KillBegin("k1", id)
    \/ KillFinish("k1")

SpecResize == Init /\ [][NextResize]_vars

\* One text through the output path: captured by the reader, formatted and
\* sent by the output task.
NextText ==
    \/ Capture
    \/ Deliver

SpecText == InitText /\ [][NextText]_vars

(***************************************************************************)
(* Properties                                                              *)
(***************************************************************************)

Range(q) == {q[n] : n \in DOMAIN q}

\* C1: in every reachable state each AgentProcess has at most one
\* send_output_to_websocket task active.
C1_AtMostOneLoop == \A i \in Insts : Cardinality(Loops(i)) <= 1

\* C3: when a handler ends while other viewers stay in the set of its agent,
\* the output tasks serving that agent go on as they were: none is cancelled.
C3_DetachKeepsDelivery ==
    [][\A v \in Viewers :
          (/\ hpc[v] # "done"
           /\ hpc'[v] = "done"
           /\ agentRef[v] # NoInst
           /\ websockets'[agentRef[v]] \ {v} # {})
          => \A l \in Loops(agentRef[v]) : output_task'[l] = output_task[l]]_vars

\* A viewer is sent each PTY chunk at most once and in the order the reader
\* queued them.
C4_OnceInOrder ==
    \A v \in Viewers : \A p, q \in DOMAIN received[v] :
        (p < q /\ received[v][p] > 0 /\ received[v][q] > 0)
            => received[v][p] < received[v][q]

\* Of two viewers that were both in the set when a chunk was queued, if one was
\* sent the chunk then the other, while it stays attached with its connection
\* up, was sent it too or is still to be sent it in that round.
C4_SameSequence ==
    \A i \in Insts : \A c \in DOMAIN audience[i] : \A v, w \in audience[i][c] :
        (c \in Range(received[v]) /\ w \in websockets[i] /\ wsOpen[w])
            => \/ c \in Range(received[w])
               \/ \E l \in Loops(i) :
                     output_task[l] = "send" /\ loopOut[l] = c /\ w \in loopTodo[l]

\* C4: every viewer attached over the same interval receives the identical
\* sequence of output chunks: each chunk at most once, in the order the reader
\* queued them, and a chunk sent to one of two such viewers is sent to the other.
C4_IdenticalSequences == C4_OnceInOrder /\ C4_SameSequence

\* C5: a chunk queued while the viewer set was empty is not taken off
\* output_queue while the set is empty.
C5_KeptWhileNoViewer ==
    [][\A i \in Insts :
          (/\ output_queue[i] # <<>>
           /\ output_queue'[i] = Tail(output_queue[i])
           /\ Head(output_queue[i]) > 0
           /\ audience[i][Head(output_queue[i])] = {})
          => websockets[i] # {}]_vars

\* C6: once a send has failed in a round, the round goes on to its end (the
\* task is not stopped before the sockets still to come were sent the chunk),
\* and at its end the sockets that failed are out of the viewer set.
C6_FailureKeepsRound ==
    [][\A l \in Viewers :
          (output_task[l] = "send" /\ loopDead[l] # {} /\ output_task'[l] # "send")
          => /\ output_task'[l] \in {"get", "done"}
             /\ websockets'[agentRef[l]] \cap loopDead[l] = {}]_vars

\* C10: when a read of the PTY fails because the child is gone, the reader
\* stops and the AgentProcess is no longer running.
C10_ReadErrorStopsPump ==
    [][\A i \in Insts : \A n \in DOMAIN pumpPc[i] :
          (/\ pumpPc[i][n] = "read"
           /\ pumpPc'[i][n] # "read"
           /\ pty_fd[i] # "None"
           /\ child[i] = "exited")
          => (pumpPc'[i][n] = "done" /\ ~is_running'[i])]_vars

\* C2: every AgentProcess has had at most one _read_pty_output task created
\* for it, so at most one is active.
C2_AtMostOnePump ==
    \A i \in Insts : Len(pumpPc[i]) <= 1 /\ Cardinality(ActivePumps(i)) <= 1

\* The reader of the only agent ever constructed is reading, two viewers are
\* attached to it, a resize was applied to it and a run_task call came last.
C2_Witness ==
    /\ nextInst = 1
    /\ pumpPc[1] = <<"read">>
    /\ Cardinality(websockets[1]) = 2
    /\ terminal_size[1] = <<30, 100>>
    /\ lastRecv.from = "run"

\* What the specification calls a resize control frame with integer rows and
\* cols, and what it calls raw input.
ResizeFrame(m) ==
    m.braces /\ m.json /\ m.type = "resize" /\ Len(m.rows) = 1 /\ Len(m.cols) = 1

RawText(m) == ~m.braces \/ ~m.json \/ m.type # "resize"

\* C7: a received resize frame with integer rows and cols makes the agent's
\* terminal_size (rows, cols), get_status reports it, and nothing is written
\* to the PTY.
C7_ResizeApplied ==
    [][\A v \in Viewers :
          (/\ recvCount' = recvCount + 1
           /\ lastRecv'.from = v
           /\ ResizeFrame(lastRecv'.msg))
          => /\ terminal_size'[agentRef[v]] = <<lastRecv'.msg.rows[1], lastRecv'.msg.cols[1]>>
             /\ get_status(agentRef[v])'.terminal_size = terminal_size'[agentRef[v]]
             /\ pty_input' = pty_input]_vars

\* C8: a received text that is raw input is appended as it is to what the PTY
\* was written (or, when the write raises, reported by the diagnostic line),
\* and terminal_size stays.
C8_RawForwarded ==
    [][\A v \in Viewers :
          (/\ recvCount' = recvCount + 1
           /\ lastRecv'.from = v
           /\ RawText(lastRecv'.msg))
          => /\ terminal_size' = terminal_size
             /\ \/ pty_input'[agentRef[v]] = Append(pty_input[agentRef[v]], lastRecv'.msg.text)
                \/ /\ pty_input' = pty_input
                   /\ output_queue'[agentRef[v]] = Append(output_queue[agentRef[v]], Diag)]_vars

\* C9: no get_agent_status or kill_agent call ends in anything but 200 or 404.
C9_NoUnhandledFault ==
    /\ statusCode \in {0, 200, 404}
    /\ \A k \in Killers : kResult[k] \in {0, 200, 404}

Last(q) == q[Len(q)]

\* C11: stop() sends SIGKILL only to a backend that is still alive after the
\* grace period, never to one that has exited, and only after it has sent
\* SIGTERM; and when it sends a signal the AgentProcess is already marked not
\* running.
C11_KillOnlyLiveBackend ==
    [][\A i \in Insts :
          (Len(signals'[i]) = Len(signals[i]) + 1)
          => /\ ~is_running'[i]
             /\ Last(signals'[i]) = "KILL"
                  => (child[i] = "alive" /\ "TERM" \in Range(signals[i]))]_vars

\* A kill_agent call for the id has returned its success message and no agent
\* has been registered under the id since.
Terminated(id) ==
    /\ agents[id] = NoInst
    /\ \E k \in Killers : kpc[k] = "done" /\ kId[k] = id /\ kResult[k] = 200

\* C12: after kill_agent has completed for an id, a get_agent_status response
\* for the id is a status that reports the agent as terminated (not running,
\* no process), and a list_agents response has no entry for the id.
C12_StatusAfterTerminate ==
    [][\A id \in AgentIds :
          Terminated(id) =>
             /\ (statusCode' # statusCode \/ statusBody' # statusBody)
                   => /\ statusCode' = 200
                      /\ ~statusBody'.is_running
                      /\ statusBody'.process_pid = "None"
                      /\ statusBody'.connected_clients >= 0
             /\ listed' # listed => \A e \in listed' : e[1] # id]_vars

\* kill_agent has begun to stop AgentProcess i, or has stopped it.
Stopped(i) == \E k \in Killers : kpc[k] \in {"sleep", "done"} /\ kAgent[k] = i

\* C13: an AgentProcess that kill_agent has begun to stop takes no viewer and
\* no input: no socket is added to its set, and no run_task prompt or viewer
\* text is handed to it.
C13_StoppedTakesNothing ==
    [][\A i \in Insts :
          Stopped(i) =>
             /\ websockets'[i] \subseteq websockets[i]
             /\ \A id \in AgentIds :
                   (agents[id] = i /\ recvCount' = recvCount + 1 /\ lastRecv'.from = "run")
                      => FALSE
             /\ \A v \in Viewers :
                   (agentRef[v] = i /\ recvCount' = recvCount + 1 /\ lastRecv'.from = v)
                      => FALSE]_vars

\* C14: an AgentProcess is constructed, registered and started exactly when an
\* attach or a run_task names an id that is not in agents; one that names a
\* registered id leaves the entry as it is and starts nothing; and an entry
\* leaves agents only when a kill_agent call for its id ends.
C14_RegistryLifecycle ==
    [][/\ \A id \in AgentIds :
            /\ (agents[id] = NoInst /\ agents'[id] # NoInst)
                  => (agents'[id] = nextInst + 1 /\ nextInst' = nextInst + 1)
            /\ (agents[id] # NoInst /\ agents'[id] # agents[id])
                  => /\ agents'[id] = NoInst
                     /\ \E k \in Killers :
                           kId'[k] = id /\ kpc[k] # "done" /\ kpc'[k] = "done"
            /\ (agents[id] = NoInst /\ recvCount' # recvCount /\ lastRecv'.from = "run")
                  => agents'[id] # NoInst
       /\ \A v \in Viewers :
            (hpc[v] = "accepted" /\ hpc'[v] # "accepted" /\ agents[hId[v]] = NoInst)
               => agents'[hId[v]] # NoInst
       /\ nextInst' # nextInst
            => \E id \in AgentIds : agents[id] = NoInst /\ agents'[id] = nextInst'
       /\ \A i \in Insts :
            (Len(pumpPc'[i]) > Len(pumpPc[i]) \/ (child[i] # "alive" /\ child'[i] = "alive"))
               => (i = nextInst' /\ nextInst' = nextInst + 1)]_vars

\* The agent the viewer's attach created is still registered and running after
\* the viewer has left and its output task was cancelled, and a run_task call
\* has reused it.
C14_Witness ==
    /\ nextInst = 1
    /\ agents["a1"] = 1
    /\ is_running[1]
    /\ hpc["w1"] = "done"
    /\ websockets[1] = {}
    /\ output_task["w1"] = "cancelled"
    /\ pumpPc[1] = <<"read">>
    /\ lastRecv.from = "run"

\* C15: when os.write raises in send_input, one diagnostic line is put on the
\* agent's output_queue and nothing else happens: nothing is written, the
\* agent's is_running, its viewer set and its registry entry stay, the
\* viewer's handler goes on receiving, and run_task answers "accepted".
C15_WriteFailureReported ==
    [][\A i \in Insts :
          write_errors'[i] = write_errors[i] + 1
          => /\ output_queue'[i] = Append(output_queue[i], Diag)
             /\ pty_input'[i] = pty_input[i]
             /\ is_running[i] => is_running'[i]
             /\ agents' = agents => is_running' = is_running
             /\ websockets' = websockets
             /\ \E id \in AgentIds : agents'[id] = i
             /\ \A id \in AgentIds : agents[id] # NoInst => agents'[id] = agents[id]
             /\ hpc' = hpc /\ wsOpen' = wsOpen
             /\ lastRecv'.from = "run" => runStatus' = 200]_vars

\* A viewer's text met a failing write: the diagnostic line is queued, the
\* agent is running and registered, and the handler is receiving.
C15_Witness ==
    /\ write_errors[1] = 1
    /\ output_queue[1] = <<Diag>>
    /\ is_running[1]
    /\ agents["a1"] = 1
    /\ lastRecv.from = "w1"
    /\ hpc["w1"] = "recv"
    /\ "w1" \in websockets[1]

\* The welcome lines in the order the handler sends them.
Welcome == <<Banner, AgentIdLine, ReadyLine>>

\* C16: what a viewer is sent begins with the connection banner, the agent id
\* line and the readiness line, in that order: no PTY chunk comes before or
\* between them.
C16_WelcomeFirst ==
    \A v \in Viewers : \A n \in DOMAIN received[v] :
        n <= Len(Welcome) => received[v][n] = Welcome[n]

\* C17: an AgentProcess that has been constructed and not started (the objects
\* beyond those the server has handed to start_process) is not running, has
\* no process_pid and no pty_fd, has terminal_size (24, 80), no websockets and
\* an empty output_queue, and get_status reports just that, with 0 clients.
C17_FreshAgent ==
    \A i \in Insts : i > nextInst =>
        /\ ~is_running[i]
        /\ process_pid[i] = "None"
        /\ pty_fd[i] = "None"
        /\ terminal_size[i] = <<24, 80>>
        /\ websockets[i] = {}
        /\ output_queue[i] = <<>>
        /\ get_status(i) = [is_running |-> FALSE, process_pid |-> "None",
                            output_queue_size |-> 0, terminal_size |-> <<24, 80>>,
                            connected_clients |-> 0]

\* One agent is started, resized, attached to and fed, and the next
\* AgentProcess is as constructed.
C17_Witness ==
    /\ nextInst = 1
    /\ is_running[1]
    /\ terminal_size[1] = <<30, 100>>
    /\ websockets[1] # {}
    /\ output_queue[1] # <<>>
    /\ MaxInst > 1
    /\ get_status(2).connected_clients = 0

\* C18: once every handler that attached to a running agent has finished its
\* attach (welcome lines sent, first-client test made), with no handler ended
\* and every connection up, exactly one output task serves the agent; also
\* when two handlers attached at the same time.
C18_OneLoopAfterAttach ==
    \A i \in Insts :
        (/\ is_running[i]
         /\ \A v \in Viewers : hpc[v] # "done"
         /\ \A v \in Viewers : agentRef[v] = i => (hpc[v] = "recv" /\ wsOpen[v])
         /\ \E v \in Viewers : agentRef[v] = i)
        => Cardinality(Loops(i)) = 1

\* C19: once kill_agent has returned its success message, the AgentProcess it
\* stopped has no socket left in websockets, and every handler that attached
\* to that AgentProcess has ended.
C19_ViewersDropped ==
    \A k \in Killers :
        (kpc[k] = "done" /\ kResult[k] = 200)
        => /\ websockets[kAgent[k]] = {}
           /\ \A v \in Viewers : agentRef[v] = kAgent[k] => hpc[v] = "done"

\* C20: is_running of an AgentProcess becomes true only in the step that
\* constructs it, so at most once; and once an AgentProcess that was started
\* is not running, it stays not running and its process_pid and pty_fd are
\* never set again (they stay, or become None).
C20_OneWay ==
    [][\A i \in Insts :
          /\ (~is_running[i] /\ is_running'[i])
                => (i > nextInst /\ child[i] = "none")
          /\ (child[i] # "none" /\ ~is_running[i])
                => /\ ~is_running'[i]
                   /\ process_pid'[i] \in {process_pid[i], "None"}
                   /\ pty_fd'[i] \in {pty_fd[i], "None"}]_vars

\* The first agent ran, was killed and its reader has ended; the id was used
\* again and a second AgentProcess is registered and running.
C20_Witness ==
    /\ child[1] = "exited"
    /\ ~is_running[1]
    /\ process_pid[1] = "None"
    /\ pty_fd[1] = "None"
    /\ pumpPc[1] = <<"done">>
    /\ agents["a1"] = 2
    /\ is_running[2]

\* C21: every PTY chunk a viewer was sent was taken off output_queue when the
\* viewer was in the agent's websockets set, so a viewer is never sent a
\* chunk that was delivered before it attached.
C21_NoHistory ==
    \A v \in Viewers : \A n \in DOMAIN received[v] :
        received[v][n] > 0
        => \E t \in DOMAIN taken[agentRef[v]] :
              /\ taken[agentRef[v]][t].chunk = received[v][n]
              /\ v \in taken[agentRef[v]][t].viewers

\* The first viewer was sent chunk 1 before the second was added; the second
\* was sent chunk 2 and not chunk 1.
C21_Witness ==
    /\ received["w1"] = <<Banner, AgentIdLine, ReadyLine, 1, 2>>
    /\ received["w2"] = <<Banner, AgentIdLine, ReadyLine, 2>>
    /\ taken[1] = <<[chunk |-> 1, viewers |-> {"w1"}], [chunk |-> 2, viewers |-> {"w1", "w2"}]>>

\* C22: the command a started AgentProcess execs is claude when the probe
\* `claude --version` succeeds on the host, otherwise the SHELL of the
\* environment when it exists, otherwise /bin/sh; and the AgentProcess is
\* running when it has been started.
C22_CommandChoice ==
    [][\A i \in Insts :
          (command[i] = "none" /\ command'[i] # "none")
          => /\ command'[i] = IF probe = "ok" THEN "claude"
                              ELSE IF shell_exists THEN "SHELL" ELSE "/bin/sh"
             /\ is_running'[i]]_vars

RECURSIVE BareLfToCrLf(_, _)
\* The first n characters of t with every line feed that is not preceded by
\* a carriage return replaced by CR LF.
BareLfToCrLf(t, n) ==
    IF n = 0 THEN <<>>
    ELSE BareLfToCrLf(t, n - 1) \o
         (IF t[n] = "LF" /\ (n = 1 \/ t[n - 1] # "CR") THEN <<"CR", "LF">> ELSE <<t[n]>>)

\* C23: the chunk the reader queues is the text the shell wrote, unchanged
\* (for a text that is valid UTF-8), and what is sent for a chunk is the chunk
\* with every bare line feed replaced by CR LF and everything else, a line
\* feed after a carriage return too, as it is.
C23_NewlinesAtDelivery ==
    /\ (queuedText # <<>> /\ "BAD" \notin Range(ptyText)) => queuedText[1] = ptyText
    /\ sentText # <<>> => sentText[1] = BareLfToCrLf(queuedText[1], Len(queuedText[1]))

\* C24: an AgentProcess whose start failed is not left in the registry: every
\* AgentProcess registered under an id has been started (its shell was
\* launched at some time).
C24_FailedStartNotRegistered ==
    \A id \in AgentIds : agents[id] # NoInst => command[agents[id]] # "none"

\* A size the PTY takes: one positive integer that fits an unsigned short.
Appliable(x) == Len(x) = 1 /\ x[1] > 0 /\ x[1] <= MaxUShort

\* A resize frame whose rows or cols the PTY cannot take.
Unappliable(m) ==
    /\ m.braces /\ m.json /\ m.type = "resize"
    /\ ~(Appliable(m.rows) /\ Appliable(m.cols))

\* C25: after every step the terminal_size of every AgentProcess is a pair
\* of positive integers and, once a window size has been set on its PTY, is
\* the size last set; and a step that receives a resize frame whose rows or
\* cols cannot be applied (zero, negative, above 65535) leaves terminal_size
\* as it was.
C25_TerminalSizeApplied ==
    [][/\ \A i \in Insts :
             /\ terminal_size'[i][1] > 0
             /\ terminal_size'[i][2] > 0
             /\ winsize'[i] # <<>> => terminal_size'[i] = winsize'[i]
       /\ (recvCount' # recvCount /\ Unappliable(lastRecv'.msg))
          => terminal_size' = terminal_size]_vars

\* C26: no socket whose handler has ended is in the websockets of an
\* AgentProcess, so connected_clients of get_status counts only viewers
\* whose handler is still running.
C26_EndedViewerRemoved ==
    \A i \in Insts :
        /\ \A v \in websockets[i] : hpc[v] # "done"
        /\ get_status(i).connected_clients
              <= Cardinality({v \in Viewers : agentRef[v] = i /\ hpc[v] # "done"})

====
